---- MODULE Spec2Model ----
(***************************************************************************)
(* TempMailMod (src/modules/temp_mail.py): the temporary-mailbox lifecycle *)
(* manager.  One asyncio event loop runs the command coroutines and the    *)
(* background polling task; a step of the model is the code a coroutine    *)
(* executes between two suspension points (awaits).  asyncio.CancelledError *)
(* is a BaseException (Python 3.8 and later): no except Exception clause   *)
(* of the module catches it.  HTML escaping and the string templates are   *)
(* taken as total functions.                                               *)
(***************************************************************************)
EXTENDS Integers, Sequences, FiniteSets, TLC

\* ------------------------------------------------------------------ bounds
MaxBoxes     == 3        \* MailAccount objects created in one run
MaxCreates   == 2        \* the same, when the commands run one at a time (Spec)
NTasks       == 2        \* slots for asyncio.Task objects (recycled when unreferenced)
MaxConflicts == 6        \* consecutive 422 answers the provider may give
MaxList      == 2        \* items in one answer to GET /messages (SpecPoll)
MaxListCmd   == 1        \* the same, in the specifications that run commands

\* ------------------------------------------------------- program constants
poll_interval     == 30  \* self._poll_interval
poll_error_delay  == 10  \* self._poll_error_delay
AccountAttempts   == 5   \* for _ in range(5)

\* --------------------------------------------------------------- universes
Boxes    == 1..MaxBoxes
Tasks    == 1..NTasks
Logins   == {"x", "y"}           \* values of _random_string(10)
ValidIds == {"a", "b"}           \* non-empty string message ids
NonStr   == "<not-a-str>"        \* an "id" value that is not a str (None, int, ...)
IdVals   == ValidIds \cup {"", NonStr}
Cmds     == {1, 2}               \* the coroutines of tempmailcmd
\* the "id" fields of the items of one answer to GET /messages, provider order
Listings(max) == UNION {[1..n -> IdVals] : n \in 0..max}
CmdId(c) == 100 + c              \* a command coroutine, as ev.who

VARIABLES
    mailbox,            \* self._mailbox: 0 (None) or a MailAccount object
    address,            \* MailAccount.address, per object ("" = not allocated)
    token,              \* MailAccount.token is set, per object
    mail_chat,          \* self._mail_chat: 0 (None) or a chat
    mail_chat_peer,     \* self._mail_chat_peer: 0 (None) or a chat
    poll_task,          \* self._poll_task: 0 (None) or a task
    known_message_ids,  \* self._known_message_ids
    tasks,              \* the asyncio tasks running _poll_loop
    cmd,                \* the coroutines of the running tempmailcmd calls
    sent,               \* history: sink deliveries attempted per id, this mailbox
    ev,                 \* history: what the last step did
    ran                 \* event loop: the command coroutines that have run since
                        \* the callbacks now queued by call_soon were queued

vars == <<mailbox, address, token, mail_chat, mail_chat_peer, poll_task,
          known_message_ids, tasks, cmd, sent, ev, ran>>

\* ------------------------------------------------------------------ helpers
Min(S) == CHOOSE x \in S : \A y \in S : x <= y
Sat(n) == IF n >= 3 THEN 3 ELSE n + 1      \* history counters saturate at 3

\* isinstance(message_id, str) and message_id   (lines 410-411, 453)
IsValidId(v) == v # NonStr /\ v # ""

\* the set comprehension of _initialize_known_messages
\* (PrimeIdsUnfiltered: the comprehension without its condition)
PrimeIdsUnfiltered(msgs) == {msgs[i] : i \in 1..Len(msgs)}
PrimeIds(msgs) == {msgs[i] : i \in {j \in 1..Len(msgs) : IsValidId(msgs[j])}}

\* self._known_message_ids.add(message_id)
\* (MarkSeenIgnored: the code without the add; MarkSeenReplace: the code
\* assigning {message_id} to the set; MarkSeenToggle: the code with ^= in
\* place of add)
MarkSeenIgnored(known, id) == known
MarkSeenToggle(known, id) == IF id \in known THEN known \ {id} ELSE known \cup {id}
MarkSeenReplace(known, id) == {id}
MarkSeen(known, id) == known \cup {id}

\* the two guards of the for loop of _poll_once: is item i skipped?
\* (IsSkippedInvalidOnly: the code without the second guard;
\* IsSkippedKnownOnly: the code without the first guard)
IsSkippedInvalidOnly(msgs, i, known) == ~IsValidId(msgs[i])
IsSkippedKnownOnly(msgs, i, known) == msgs[i] \in known
IsSkipped(msgs, i, known) == ~IsValidId(msgs[i]) \/ msgs[i] \in known

\* index of the first item at or after i that the for loop does not skip
RECURSIVE NextNew(_, _, _)
NextNew(msgs, i, known) ==
    IF i > Len(msgs) THEN i
    ELSE IF IsSkipped(msgs, i, known) THEN NextNew(msgs, i + 1, known)
    ELSE i

\* ------------------------------------------------- one _fetch_* call (frame)
\* st: "tok" awaiting _obtain_token, "req" awaiting _request_json,
\*     "ok" returned, "fail" raised.  nreq, nauth, e1, fres are history:
\*     requests issued, token requests issued after a 401, first attempt got
\*     401, outcome of the call.
NoFrame == [st |-> "none", what |-> "none", att |-> 0, box |-> 0,
            nreq |-> 0, nauth |-> 0, e1 |-> FALSE, fres |-> "none"]
NewFrame(what) == [NoFrame EXCEPT !.what = what, !.att = 1]

\* _auth_headers, up to its first suspension
\* (AuthHeadersUncached: the code without the test of line 531)
AuthHeadersUncached(f, mb, tok) ==
    IF mb = 0 THEN [f EXCEPT !.st = "fail", !.fres = "nomailbox"]
    ELSE [f EXCEPT !.st = "tok", !.box = mb,
                   !.nauth = IF f.e1 THEN Sat(@) ELSE @]
AuthHeaders(f, mb, tok) ==
    IF mb = 0 THEN [f EXCEPT !.st = "fail", !.fres = "nomailbox"]
    ELSE IF ~tok[mb]
         THEN [f EXCEPT !.st = "tok", !.box = mb,
                        !.nauth = IF f.e1 THEN Sat(@) ELSE @]
         ELSE [f EXCEPT !.st = "req", !.box = mb, !.nreq = Sat(@)]

\* _reset_token
ResetToken(mb, tok) == IF mb # 0 THEN [tok EXCEPT ![mb] = FALSE] ELSE tok

\* the except clause of _fetch_messages / _fetch_message: is a 401 retried?
\* (RetryAlways: the code with the except clause in a loop)
RetryAlways(att) == TRUE
RetryOn401(att) == att = 1

\* _obtain_token returned inside _auth_headers: cache the token, issue the request
TokenResp(f, out) ==
    IF out = "ok" THEN [f EXCEPT !.st = "req", !.nreq = Sat(@)]
    ELSE [f EXCEPT !.st = "fail", !.fres = "token"]
TokenAfterTokenResp(f, out, tok) ==
    IF out = "ok" THEN [tok EXCEPT ![f.box] = TRUE] ELSE tok

\* _request_json returned or raised inside _fetch_messages / _fetch_message
TokenAfterReqResp(f, out, mb, tok) ==
    IF out = "401" /\ RetryOn401(f.att) THEN ResetToken(mb, tok) ELSE tok
ReqResp(f, out, mb, tok) ==
    IF out = "ok" THEN [f EXCEPT !.st = "ok", !.fres = "ok"]
    ELSE IF out = "401"
         THEN IF RetryOn401(f.att)
              THEN AuthHeaders([f EXCEPT !.att = Sat(@), !.e1 = (f.att = 1) \/ @],
                               mb, ResetToken(mb, tok))
              ELSE [f EXCEPT !.st = "fail", !.fres = "401"]
         ELSE [f EXCEPT !.st = "fail", !.fres = "err"]

\* the listings a request of the call may be answered with (none unless it
\* is a successful GET /messages)
Answers(L, f, out) ==
    IF f.what = "list" /\ out = "ok" THEN L ELSE {<<>>}

\* _fetch_messages / _fetch_message, up to the first suspension
FetchBegin(what, mb, tok) == AuthHeaders(NewFrame(what), mb, tok)


\* ------------------------------------------------------------ history (ev)
\* who took the step, what it did (k), the id or address it concerns, the
\* _fetch_* call it advanced or finished, the task it concerns, a count (n:
\* the POST /accounts requests of a "/tempmail new"; 1 when the task that
\* starts was created by the restart just before), and, when it completed an
\* iteration of _poll_once, that
\* iteration: its listing, the known ids when the listing arrived, the ids
\* offered to the sink, whether a detail fetch failed, and whether the
\* previous iteration had no detail failure and listed every valid id of this
\* listing, the ids whose detail fetch failed, and the ids whose detail
\* fetch had failed in earlier iterations of the task and that had not
\* been offered to the sink since
NoIter == [on |-> FALSE, l |-> <<>>, k0 |-> {}, deliv |-> <<>>, dfail |-> FALSE,
           same |-> FALSE, fails |-> {}, pend |-> {}]
NoEv == [who |-> 0, k |-> "init", id |-> "", call |-> NoFrame, task |-> 0,
         iter |-> NoIter, n |-> 0]
Ev(who, k, id, call, task) ==
    [who |-> who, k |-> k, id |-> id, call |-> call, task |-> task,
     iter |-> NoIter, n |-> 0]

\* ------------------------------------------------------------ polling task
\* pc: "free" (no such task), "created" (create_task done, coroutine not yet
\*     started), "tok"/"req" (inside a _fetch_* call, see f), "send" (awaiting
\*     send_message), "sleep" (awaiting asyncio.sleep(dur)), "done",
\*     "cancelled".  cancel: task.cancel() was called and CancelledError is
\*     not yet delivered.  History: tbox (mailbox when the coroutine
\*     started), k0 (known ids when the listing arrived), deliv (ids offered
\*     to the sink in this iteration), dfail (a detail fetch failed in this
\*     iteration), prevIds / prevClean (the valid ids the previous iteration
\*     listed; it had no detail failure), same (the previous iteration had no
\*     detail failure and listed every valid id this one lists), fails (the
\*     ids whose detail fetch failed in this iteration), pend (the ids whose
\*     detail fetch failed in an earlier iteration of the task and that have
\*     not been offered to the sink since).
FreeTask == [pc |-> "free", cancel |-> FALSE, f |-> NoFrame, msgs |-> <<>>,
             idx |-> 0, dur |-> 0, tbox |-> 0, k0 |-> {}, deliv |-> <<>>,
             dfail |-> FALSE, same |-> FALSE, prevIds |-> {}, prevClean |-> FALSE,
             fails |-> {}, pend |-> {}]
NewTask == [FreeTask EXCEPT !.pc = "created"]

Terminated(r) == r.pc \in {"done", "cancelled"}
Alive(r) == r.pc \notin {"free", "done", "cancelled"}
Suspended(r) == r.pc \in {"created", "tok", "req", "send", "sleep"}

\* the tasks that a command coroutine holds in a local variable
Refs(cm) == {cm[c].stopTask : c \in DOMAIN cm}

\* a terminated task that nothing references any more is garbage
Collect(ts, pt, refs) ==
    [s \in Tasks |-> IF Terminated(ts[s]) /\ s # pt /\ s \notin refs
                     THEN FreeTask ELSE ts[s]]

\* a task that is being created and has no slot yet
Fresh == 0 - 1

\* finally: if self._poll_task is current_task: self._poll_task = None
\* (FinallyKeep: the code without the finally clause)
FinallyKeep(handle, t) == handle
FinallyHandle(handle, t) == IF handle = t THEN 0 ELSE handle

\* while / if condition: self._mailbox and self._mail_chat_peer
LoopCond(mb, peer) == mb # 0 /\ peer # 0

\* except Exception: await asyncio.sleep(self._poll_error_delay)
\* (BackoffNone: the code without the except clause, the error ends the
\* task; BackoffInterval: the code sleeping the poll interval and going on;
\* BackoffSpin: the code going back to the top of the loop without a sleep)
BackoffSpin(r) == [r EXCEPT !.pc = "created", !.f = NoFrame, !.msgs = <<>>, !.idx = 0,
                            !.same = FALSE, !.k0 = {}, !.deliv = <<>>,
                            !.dfail = FALSE, !.prevIds = {}, !.prevClean = FALSE,
                            !.fails = {}, !.pend = {}]
BackoffNone(r) == [r EXCEPT !.pc = "done", !.f = NoFrame, !.msgs = <<>>, !.idx = 0]
BackoffInterval(r) == [r EXCEPT !.pc = "sleep", !.dur = poll_interval, !.f = NoFrame,
                                !.msgs = <<>>, !.idx = 0]
Backoff(r) == [r EXCEPT !.pc = "sleep", !.dur = poll_error_delay, !.f = NoFrame,
                        !.msgs = <<>>, !.idx = 0, !.same = FALSE,
                        !.k0 = {}, !.deliv = <<>>, !.dfail = FALSE,
                        !.prevIds = {}, !.prevClean = FALSE,
                        !.fails = {}, !.pend = {}]

\* the task is suspended in asyncio.sleep(self._poll_error_delay)
InBackoff(r) == r.pc = "sleep" /\ r.dur = poll_error_delay

\* the for loop of _poll_once from item i on, up to the next suspension
RECURSIVE ForLoop(_, _, _, _, _)
ForLoop(r, i, known, mb, tok) ==
    LET j == NextNew(r.msgs, i, known) IN
    IF j > Len(r.msgs)
    THEN [r EXCEPT !.pc = "sleep", !.dur = poll_interval, !.idx = 0,
                   !.f = NoFrame]
    ELSE LET f2 == FetchBegin("detail", mb, tok) IN
         IF f2.st = "fail"
         THEN ForLoop([r EXCEPT !.dfail = TRUE, !.fails = @ \cup {r.msgs[j]}],
                      j + 1, known, mb, tok)
         ELSE [r EXCEPT !.pc = f2.st, !.idx = j, !.f = f2]

\* except Exception: continue (lines 460-461): the detail fetch of item
\* r.idx raised
\* (DetailFailedBreak: the code with break in place of continue)
DetailFailedBreak(r, known, mb, tok) ==
    [r EXCEPT !.dfail = TRUE, !.fails = @ \cup {r.msgs[r.idx]},
              !.pc = "sleep", !.dur = poll_interval, !.idx = 0, !.f = NoFrame]
DetailFailed(r, known, mb, tok) ==
    ForLoop([r EXCEPT !.dfail = TRUE, !.fails = @ \cup {r.msgs[r.idx]}],
            r.idx + 1, known, mb, tok)

\* the top of the while loop of _poll_loop, up to the next suspension
LoopTop(r, mb, peer, tok) ==
    IF LoopCond(mb, peer)
    THEN LET f2 == FetchBegin("list", mb, tok) IN
         IF f2.st = "fail" THEN Backoff(r)
         ELSE [r EXCEPT !.pc = f2.st, !.f = f2]
    ELSE [r EXCEPT !.pc = "done", !.f = NoFrame]

\* a _fetch_* call of _poll_once returned or raised: the rest of the step
AfterFetch(r, f2, listing, known, mb, tok) ==
    IF f2.st \in {"tok", "req"} THEN [r EXCEPT !.pc = f2.st, !.f = f2]
    ELSE IF f2.what = "list"
         THEN IF f2.st = "ok"
              THEN ForLoop([r EXCEPT !.msgs = listing, !.k0 = known,
                                     !.deliv = <<>>, !.dfail = FALSE,
                                     !.fails = {},
                                     !.same = (r.prevClean /\
                                               PrimeIds(listing) \subseteq r.prevIds)],
                           1, known, mb, tok)
              ELSE Backoff(r)
         ELSE IF f2.st = "ok"
              THEN [r EXCEPT !.pc = "send", !.f = NoFrame,
                             !.deliv = Append(@, r.msgs[r.idx])]
              ELSE DetailFailed(r, known, mb, tok)

EvAfterFetch(t, r, f2) ==
    IF f2.st = "tok" /\ r.f.st = "req" THEN Ev(t, "retry401", "", f2, 0)
    ELSE IF f2.st = "req" THEN Ev(t, "tok_ok", "", f2, 0)
    ELSE IF f2.what = "list"
         THEN Ev(t, IF f2.st = "ok" THEN "list_ok" ELSE "list_fail", "", f2, 0)
         ELSE Ev(t, IF f2.st = "ok" THEN "detail_ok" ELSE "detail_fail",
                 r.msgs[r.idx], f2, 0)

\* the iteration a step completed, and the task once it sleeps after it
IterOf(r2) ==
    IF r2.pc = "sleep" /\ r2.dur = poll_interval
    THEN [on |-> TRUE, l |-> r2.msgs, k0 |-> r2.k0, deliv |-> r2.deliv,
          dfail |-> r2.dfail, same |-> r2.same, fails |-> r2.fails,
          pend |-> r2.pend]
    ELSE NoIter
Settle(r2) ==
    IF r2.pc = "sleep" /\ r2.dur = poll_interval
    THEN [r2 EXCEPT !.k0 = {}, !.deliv = <<>>, !.same = FALSE, !.msgs = <<>>,
                    !.dfail = FALSE, !.prevIds = PrimeIds(r2.msgs),
                    !.prevClean = ~r2.dfail, !.fails = {},
                    !.pend = (r2.pend \cup r2.fails)
                                 \ {r2.deliv[i] : i \in DOMAIN r2.deliv}]
    ELSE r2

SentAfterFetch(r, f2, snt) ==
    IF f2.what = "detail" /\ f2.st = "ok"
    THEN [snt EXCEPT ![r.msgs[r.idx]] = Sat(@)] ELSE snt

\* the task's coroutine starts running
PollStart(t) ==
    /\ tasks[t].pc = "created" /\ ~tasks[t].cancel
    /\ LET r2 == LoopTop([tasks[t] EXCEPT !.tbox = mailbox], mailbox,
                         mail_chat_peer, token)
           pt == IF r2.pc = "done" THEN FinallyHandle(poll_task, t) ELSE poll_task
       IN /\ poll_task' = pt
          /\ tasks' = Collect([tasks EXCEPT ![t] = r2], pt, Refs(cmd))
          /\ ev' = [Ev(t, IF r2.pc = "done" THEN "exit" ELSE "start", "", r2.f, 0)
                      EXCEPT !.n = IF ev.k = "restart" /\ ev.task = t THEN 1 ELSE 0]
    /\ UNCHANGED <<mailbox, address, token, mail_chat, mail_chat_peer,
                   known_message_ids, cmd, sent>>
    /\ ran' = {}

\* _obtain_token answered inside a _fetch_* call of the task
PollTokenResp(t, out) ==
    /\ tasks[t].pc = "tok" /\ ~tasks[t].cancel
    /\ LET r  == tasks[t]
           f2 == TokenResp(r.f, out)
           tk == TokenAfterTokenResp(r.f, out, token)
           r2 == AfterFetch(r, f2, <<>>, known_message_ids, mailbox, tk)
       IN /\ token' = tk
          /\ tasks' = [tasks EXCEPT ![t] = Settle(r2)]
          /\ ev' = [EvAfterFetch(t, r, f2) EXCEPT !.iter = IterOf(r2)]
    /\ UNCHANGED <<mailbox, address, mail_chat, mail_chat_peer, poll_task,
                   known_message_ids, cmd, sent>>
    /\ ran' = {}

\* _request_json answered inside a _fetch_* call of the task; listing is the
\* answer to GET /messages
PollReqResp(t, out, listing) ==
    /\ tasks[t].pc = "req" /\ ~tasks[t].cancel
    /\ LET r  == tasks[t]
           f2 == ReqResp(r.f, out, mailbox, token)
           tk == TokenAfterReqResp(r.f, out, mailbox, token)
           r2 == AfterFetch(r, f2, listing, known_message_ids, mailbox, tk)
       IN /\ token' = tk
          /\ tasks' = [tasks EXCEPT ![t] = Settle(r2)]
          /\ sent' = SentAfterFetch(r, f2, sent)
          /\ ev' = [EvAfterFetch(t, r, f2) EXCEPT !.iter = IterOf(r2)]
    /\ UNCHANGED <<mailbox, address, mail_chat, mail_chat_peer, poll_task,
                   known_message_ids, cmd>>
    /\ ran' = {}

\* lines 465-470: the send is over (either way), the id is marked
\* (SeenAfterSendOkOnly: the code with the add inside the try)
SeenAfterSendOkOnly(known, id, out) == IF out = "ok" THEN MarkSeen(known, id) ELSE known
SeenAfterSend(known, id, out) == MarkSeen(known, id)

\* for item in messages: the item the loop takes after item i
\* (NextItemRestart: the code starting the for loop over after each send)
NextItemRestart(i) == 1
NextItem(i) == i + 1

\* send_message returned or raised
PollSendResp(t, out) ==
    /\ tasks[t].pc = "send" /\ ~tasks[t].cancel
    /\ LET r  == tasks[t]
           id == r.msgs[r.idx]
           kn == SeenAfterSend(known_message_ids, id, out)
           r2 == ForLoop(r, NextItem(r.idx), kn, mailbox, token)
       IN /\ known_message_ids' = kn
          /\ tasks' = [tasks EXCEPT ![t] = Settle(r2)]
          /\ ev' = [Ev(t, IF out = "ok" THEN "send_ok" ELSE "send_fail", id,
                       NoFrame, 0) EXCEPT !.iter = IterOf(r2)]
    /\ UNCHANGED <<mailbox, address, token, mail_chat, mail_chat_peer, poll_task,
                   cmd, sent>>
    /\ ran' = {}

\* asyncio.sleep(self._poll_interval) is over: next turn of the while loop
PollWake(t) ==
    /\ tasks[t].pc = "sleep" /\ tasks[t].dur = poll_interval /\ ~tasks[t].cancel
    /\ LET r2 == LoopTop(tasks[t], mailbox, mail_chat_peer, token)
           pt == IF r2.pc = "done" THEN FinallyHandle(poll_task, t) ELSE poll_task
       IN /\ poll_task' = pt
          /\ tasks' = Collect([tasks EXCEPT ![t] = r2], pt, Refs(cmd))
          /\ ev' = Ev(t, IF r2.pc = "done" THEN "exit" ELSE "wake", "", r2.f, 0)
    /\ UNCHANGED <<mailbox, address, token, mail_chat, mail_chat_peer,
                   known_message_ids, cmd, sent>>
    /\ ran' = {}

\* asyncio.sleep(self._poll_error_delay) is over: lines 442-447
PollRestart(t) ==
    /\ InBackoff(tasks[t]) /\ ~tasks[t].cancel
    /\ LET go == LoopCond(mailbox, mail_chat_peer)
           \* the handle after line 444 and the finally clause; Fresh stands
           \* for the task line 444 creates
           h  == FinallyHandle(IF go THEN Fresh ELSE poll_task, t)
           ts == Collect([tasks EXCEPT ![t] = [FreeTask EXCEPT !.pc = "done"]],
                         h, Refs(cmd))
           n  == IF go THEN Min({s \in Tasks : ts[s].pc = "free"}) ELSE 0
       IN /\ go => \E s \in Tasks : ts[s].pc = "free"
          /\ poll_task' = IF h = Fresh THEN n ELSE h
          /\ tasks' = IF go THEN [ts EXCEPT ![n] = NewTask] ELSE ts
          /\ ev' = Ev(t, IF go THEN "restart" ELSE "exit", "", NoFrame, n)
    /\ UNCHANGED <<mailbox, address, token, mail_chat, mail_chat_peer,
                   known_message_ids, cmd, sent>>
    /\ ran' = {}

\* CancelledError is thrown into the task at the await it is suspended on
PollCancelled(t) ==
    /\ Suspended(tasks[t]) /\ tasks[t].cancel
    /\ LET r  == tasks[t]
           pt == IF r.pc = "created" THEN poll_task
                 ELSE FinallyHandle(poll_task, t)
           at == IF r.pc = "sleep"
                 THEN (IF r.dur = poll_interval THEN "sleep30" ELSE "sleep10")
                 ELSE r.pc
       IN /\ poll_task' = pt
          /\ tasks' = Collect([tasks EXCEPT ![t] = [FreeTask EXCEPT !.pc = "cancelled"]],
                              pt, Refs(cmd))
          /\ ev' = Ev(t, "cancelled", at, NoFrame, 0)
    /\ UNCHANGED <<mailbox, address, token, mail_chat, mail_chat_peer,
                   known_message_ids, cmd, sent>>
    /\ ran' = {}


\* ------------------------------------------------------- command coroutines
\* pc: "idle" (no command running), "awaitstop" (await task in
\*     _stop_polling), "mkchat", "entity", "welcome" (the three awaits of
\*     _create_mail_chat), "tok"/"req" (inside a _fetch_* call, see f).
\*     _generate_mailbox reads and writes no field of the module, so its
\*     awaits are not suspension points of the model: GenerateMailbox
\*     computes it from the provider's answers.
IdleCmd == [pc |-> "idle", kind |-> "none", newbox |-> 0, stopTask |-> 0,
            f |-> NoFrame, didCancel |-> FALSE, rid |-> ""]

Gone == "-"
NAlloc == Cardinality({b \in Boxes : address[b] # ""})

\* str.strip() on the ids the command layer passes
\* (StripSkipped: the code without the strip of line 232)
StripSkipped(s) == s
Strip(s) == IF s = " " THEN "" ELSE s

\* task.cancel(): a request, delivered when the task is resumed
CancelTask(ts, t) == [ts EXCEPT ![t].cancel = Alive(ts[t])]

\* await task: the awaiting coroutine resumes once the task is over
\* (AwaitSkipped: the code without the await)
AwaitSkipped(r) == TRUE
AwaitDone(r) == Terminated(r)

\* for _ in range(5): is there another attempt after attempt k?
\* (MoreAttemptsAlways: the code with while True)
MoreAttemptsAlways(k) == TRUE
MoreAttempts(k) == k < AccountAttempts

\* the provider's answers to one _generate_mailbox: GET /domains, then 422 to
\* the first conflicts POST /accounts and final to the next one, then
\* POST /token
\* (answers that are never asked for are fixed, not enumerated)
GenAnswers ==
    {a \in [dom : {"ok", "err"}, conflicts : 0..MaxConflicts,
            final : {"ok", "err"}, tok : {"ok", "err"}] :
        /\ a.dom = "err" => a.conflicts = 0 /\ a.final = "ok"
        /\ (a.dom = "err" \/ a.final = "err") => a.tok = "ok"}

\* except aiohttp.ClientResponseError: if error.status == 422: continue
\* (AnyErrorIsConflict: the code with a bare continue in the except clause)
AnyErrorIsConflict(answer) == answer # "ok"
IsConflict(answer) == answer = "422"

\* the for loop of _generate_mailbox from attempt k on: how it ends and the
\* number of POST /accounts it has issued
RECURSIVE AccountLoop(_, _)
AccountLoop(k, a) ==
    LET answer == IF k <= a.conflicts THEN "422" ELSE a.final IN
    IF answer = "ok"
    THEN [res |-> IF a.tok = "ok" THEN "ok" ELSE "token", posts |-> k]
    ELSE IF IsConflict(answer)
         THEN IF MoreAttempts(k) THEN AccountLoop(k + 1, a)
              ELSE [res |-> "exhausted", posts |-> k]
         ELSE [res |-> "provider", posts |-> k]

\* _generate_mailbox
GenerateMailbox(a) ==
    IF a.dom # "ok" THEN [res |-> "domain", posts |-> 0]
    ELSE AccountLoop(1, a)

\* _start_polling: the slot of the task it creates, 0 if it creates none
\* (StartPollingUnchecked: the code without the test of self._poll_task)
StartPollingUnchecked(pt, mb, peer, ts) ==
    IF mb = 0 \/ peer = 0 THEN 0
    ELSE Min({s \in Tasks : ts[s].pc = "free"})
StartPollingTask(pt, mb, peer, ts) ==
    IF pt # 0 \/ mb = 0 \/ peer = 0 THEN 0
    ELSE Min({s \in Tasks : ts[s].pc = "free"})

\* the MailAccount that self._mailbox = mailbox (line 165) stops referencing
\* is garbage once no _fetch_* call holds it: its fields are dropped
Dropped(old, new) ==
    /\ old # 0 /\ old # new
    /\ \A t \in Tasks : tasks[t].f.box # old
    /\ \A c \in Cmds : cmd[c].f.box # old

\* The event loop runs the callbacks that call_soon queued in their order:
\* the wake-up of a coroutine that awaits a task that has terminated (line
\* 428) and the first step of a task that create_task has created run before
\* anything that becomes ready later.  Until they have run, a coroutine that
\* has run once is not resumed again.
CallSoonQueued(ts, cm) ==
    \/ \E c \in Cmds : cm[c].pc = "awaitstop" /\ Terminated(ts[cm[c].stopTask])
    \/ \E t \in Tasks : ts[t].pc = "created"
RanAfter(c, ts, cm) ==
    IF CallSoonQueued(ts, cm)
    THEN (IF CallSoonQueued(tasks, cmd) THEN ran ELSE {}) \cup {c}
    ELSE {}

\* self._known_message_ids.clear() of line 168
\* (ClearKnownSkipped: the code without that line)
ClearKnownSkipped(known) == known
ClearKnown(known) == {}

\* lines 165-168, then _create_mail_chat up to its first await
Install(c, r, ts, addr, tok, posts) ==
    /\ mailbox' = r.newbox
    /\ address' = IF Dropped(mailbox, r.newbox)
                  THEN [addr EXCEPT ![mailbox] = Gone] ELSE addr
    /\ token' = IF Dropped(mailbox, r.newbox)
                THEN [tok EXCEPT ![mailbox] = FALSE] ELSE tok
    /\ mail_chat' = 0
    /\ mail_chat_peer' = 0
    /\ known_message_ids' = ClearKnown(known_message_ids)
    /\ poll_task' = 0
    /\ sent' = [i \in ValidIds |-> 0]
    /\ cmd' = [cmd EXCEPT ![c] = [r EXCEPT !.pc = "mkchat", !.stopTask = 0]]
    /\ tasks' = Collect(ts, 0, Refs(cmd'))
    /\ ev' = [Ev(CmdId(c), "installed", addr[r.newbox], NoFrame, r.stopTask)
                EXCEPT !.n = posts]

\* self._mailbox after the except branch of lines 157-162, which returns
\* without assigning it
\* (MailboxLostOnFailure: the code with the mailbox dropped in that branch)
MailboxLostOnFailure(mb) == 0
MailboxAfterFailure(mb) == mb

\* the polling tasks after the except branch of lines 157-162: the branch
\* returns before the _stop_polling of line 164
\* (TasksCancelledOnFailure: the code with _stop_polling's cancel before the
\* try)
TasksCancelledOnFailure(ts, pt) == IF pt = 0 THEN ts ELSE CancelTask(ts, pt)
TasksAfterFailure(ts, pt) == ts

\* history of the except branch: how _generate_mailbox failed, the POST
\* /accounts it had issued, and the answers the provider gave
GenFailed(who, g, a) ==
    [who |-> who, k |-> "new_failed", id |-> g.res, call |-> NoFrame, task |-> 0,
     iter |-> NoIter, n |-> g.posts, ans |-> a]

\* "/tempmail new": _create_mailbox up to its first await outside
\* _generate_mailbox.  a are the provider's answers, login the address that
\* line 274 draws for the attempt that succeeds.
CmdNew(c, a, login) ==
    /\ cmd[c].pc = "idle" /\ NAlloc < MaxBoxes
    /\ LET g == GenerateMailbox(a) IN
       IF g.res = "ok"
       THEN LET b  == NAlloc + 1
                r  == [IdleCmd EXCEPT !.kind = "new", !.newbox = b,
                                      !.stopTask = poll_task,
                                      !.didCancel = (poll_task # 0)]
                ts == IF poll_task = 0 THEN tasks ELSE CancelTask(tasks, poll_task)
                ad == [address EXCEPT ![b] = login]
                tk == [token EXCEPT ![b] = TRUE]
            IN IF poll_task = 0 \/ AwaitDone(ts[poll_task])
               THEN Install(c, r, ts, ad, tk, g.posts)
               ELSE /\ address' = ad
                    /\ token' = tk
                    /\ cmd' = [cmd EXCEPT ![c] = [r EXCEPT !.pc = "awaitstop"]]
                    /\ tasks' = ts
                    /\ ev' = [Ev(CmdId(c), "cancel", login, NoFrame, poll_task)
                                EXCEPT !.n = g.posts]
                    /\ UNCHANGED <<mailbox, mail_chat, mail_chat_peer, poll_task,
                                   known_message_ids, sent>>
       ELSE /\ login = "x"
            /\ mailbox' = MailboxAfterFailure(mailbox)
            /\ tasks' = TasksAfterFailure(tasks, poll_task)
            /\ ev' = GenFailed(CmdId(c), g, a)
            /\ UNCHANGED <<address, token, mail_chat, mail_chat_peer,
                           poll_task, known_message_ids, cmd, sent>>
    /\ ran' = RanAfter(c, tasks', cmd')

\* "/tempmail" with no argument (lines 125-136): the current_mailbox answer
\* when a mailbox is active, _create_mailbox otherwise
\* (CmdCurrentAlwaysNew: the code without the branch of lines 126-133)
CmdCurrentAlwaysNew(c, a, login) == CmdNew(c, a, login)
CmdCurrent(c, a, login) ==
    IF mailbox # 0
    THEN /\ cmd[c].pc = "idle"
         /\ a = [dom |-> "ok", conflicts |-> 0, final |-> "ok", tok |-> "ok"]
         /\ login = "x"
         /\ ev' = Ev(CmdId(c), "current", address[mailbox], NoFrame, 0)
         /\ UNCHANGED <<mailbox, address, token, mail_chat, mail_chat_peer,
                        poll_task, known_message_ids, tasks, cmd, sent>>
         /\ ran' = RanAfter(c, tasks', cmd')
    ELSE CmdNew(c, a, login)

\* await task of _stop_polling is over: line 430, then lines 165-168
CmdAwaitStop(c) ==
    /\ cmd[c].pc = "awaitstop"
    /\ AwaitDone(tasks[cmd[c].stopTask])
    /\ Install(c, cmd[c], tasks, address, token, 0)
    /\ ran' = IF CallSoonQueued(tasks', cmd') THEN {c} ELSE {}

\* CreateChannelRequest answered
CmdChatResp(c, out) ==
    /\ cmd[c].pc = "mkchat"
    /\ IF out = "ok"
       THEN /\ mail_chat' = cmd[c].newbox
            /\ cmd' = [cmd EXCEPT ![c].pc = "entity"]
            /\ ev' = Ev(CmdId(c), "chat_ok", "", NoFrame, 0)
       ELSE /\ mail_chat' = mail_chat
            /\ cmd' = [cmd EXCEPT ![c] = IdleCmd]
            /\ ev' = Ev(CmdId(c), "new_done", "chat_failed", NoFrame, 0)
    /\ UNCHANGED <<mailbox, address, token, mail_chat_peer, poll_task,
                   known_message_ids, tasks, sent>>
    /\ ran' = RanAfter(c, tasks', cmd')

\* get_input_entity answered: lines 370-373
CmdEntityResp(c, out) ==
    /\ cmd[c].pc = "entity"
    /\ mail_chat_peer' = cmd[c].newbox
    /\ cmd' = [cmd EXCEPT ![c].pc = "welcome"]
    /\ ev' = Ev(CmdId(c), "peer_set", out, NoFrame, 0)
    /\ UNCHANGED <<mailbox, address, token, mail_chat, poll_task,
                   known_message_ids, tasks, sent>>
    /\ ran' = RanAfter(c, tasks', cmd')

\* the _fetch_* call of a command is over: the rest of the command
CmdAfterFetch(c, f2, listing) ==
    IF f2.st \in {"tok", "req"}
    THEN /\ cmd' = [cmd EXCEPT ![c].pc = f2.st, ![c].f = f2]
         /\ ev' = Ev(CmdId(c), IF f2.st = "tok" /\ cmd[c].f.st = "req"
                               THEN "retry401" ELSE "fetching", "", f2, 0)
         /\ UNCHANGED <<known_message_ids, poll_task, tasks>>
    ELSE IF cmd[c].kind = "new"
    THEN \* _initialize_known_messages, then _start_polling
         LET n == StartPollingTask(poll_task, mailbox, mail_chat_peer, tasks) IN
         /\ known_message_ids' = IF f2.st = "ok" THEN PrimeIds(listing) ELSE {}
         /\ poll_task' = IF n = 0 THEN poll_task ELSE n
         /\ tasks' = IF n = 0 THEN tasks ELSE [tasks EXCEPT ![n] = NewTask]
         /\ cmd' = [cmd EXCEPT ![c] = IdleCmd]
         /\ ev' = [Ev(CmdId(c), "new_done",
                      IF f2.st = "ok" THEN "primed" ELSE "unprimed", f2, n)
                     EXCEPT !.iter.l = IF f2.st = "ok" THEN listing ELSE <<>>]
    ELSE /\ cmd' = [cmd EXCEPT ![c] = IdleCmd]
         /\ ev' = Ev(CmdId(c), IF cmd[c].kind = "inbox" THEN "inbox_done"
                               ELSE "read_done", cmd[c].rid, f2, 0)
         /\ UNCHANGED <<known_message_ids, poll_task, tasks>>

\* the welcome send_message answered: lines 377-388
CmdWelcomeResp(c, out) ==
    /\ cmd[c].pc = "welcome"
    /\ out \in {"ok", "err"}
    /\ CmdAfterFetch(c, FetchBegin("list", mailbox, token), <<>>)
    /\ UNCHANGED <<mailbox, address, token, mail_chat, mail_chat_peer, sent>>
    /\ ran' = RanAfter(c, tasks', cmd')

\* _obtain_token answered inside a _fetch_* call of the command
CmdTokenResp(c, out) ==
    /\ cmd[c].pc = "tok"
    /\ token' = TokenAfterTokenResp(cmd[c].f, out, token)
    /\ CmdAfterFetch(c, TokenResp(cmd[c].f, out), <<>>)
    /\ UNCHANGED <<mailbox, address, mail_chat, mail_chat_peer, sent>>
    /\ ran' = RanAfter(c, tasks', cmd')

\* _request_json answered inside a _fetch_* call of the command; listing is
\* the answer to GET /messages
CmdReqResp(c, out, listing) ==
    /\ cmd[c].pc = "req"
    /\ token' = TokenAfterReqResp(cmd[c].f, out, mailbox, token)
    /\ CmdAfterFetch(c, ReqResp(cmd[c].f, out, mailbox, token), listing)
    /\ UNCHANGED <<mailbox, address, mail_chat, mail_chat_peer, sent>>
    /\ ran' = RanAfter(c, tasks', cmd')

\* "/tempmail inbox": _show_inbox up to its first await
CmdInbox(c) ==
    /\ cmd[c].pc = "idle"
    /\ IF mailbox = 0
       THEN /\ cmd' = cmd
            /\ ev' = Ev(CmdId(c), "no_mailbox", "inbox", NoFrame, 0)
       ELSE LET f2 == FetchBegin("list", mailbox, token) IN
            /\ cmd' = [cmd EXCEPT ![c] = [IdleCmd EXCEPT !.pc = f2.st,
                                                         !.kind = "inbox",
                                                         !.f = f2]]
            /\ ev' = Ev(CmdId(c), "cmd_inbox", "", f2, 0)
    /\ UNCHANGED <<mailbox, address, token, mail_chat, mail_chat_peer, poll_task,
                   known_message_ids, tasks, sent>>
    /\ ran' = RanAfter(c, tasks', cmd')

\* "/tempmail read <id>": _read_message up to its first await
CmdRead(c, rid) ==
    /\ cmd[c].pc = "idle"
    /\ IF mailbox = 0
       THEN /\ cmd' = cmd
            /\ ev' = Ev(CmdId(c), "no_mailbox", "read", NoFrame, 0)
       ELSE IF Strip(rid) = ""
       THEN /\ cmd' = cmd
            /\ ev' = Ev(CmdId(c), "invalid_id", rid, NoFrame, 0)
       ELSE LET f2 == FetchBegin("detail", mailbox, token) IN
            /\ cmd' = [cmd EXCEPT ![c] = [IdleCmd EXCEPT !.pc = f2.st,
                                                         !.kind = "read",
                                                         !.f = f2,
                                                         !.rid = Strip(rid)]]
            /\ ev' = Ev(CmdId(c), "cmd_read", Strip(rid), f2, 0)
    /\ UNCHANGED <<mailbox, address, token, mail_chat, mail_chat_peer, poll_task,
                   known_message_ids, tasks, sent>>
    /\ ran' = RanAfter(c, tasks', cmd')

\* ----------------------------------------------------------- specifications
\* __init__
Init ==
    /\ mailbox = 0
    /\ address = [b \in Boxes |-> ""]
    /\ token = [b \in Boxes |-> FALSE]
    /\ mail_chat = 0
    /\ mail_chat_peer = 0
    /\ poll_task = 0
    /\ known_message_ids = {}
    /\ tasks = [t \in Tasks |-> FreeTask]
    /\ cmd = [c \in Cmds |-> IdleCmd]
    /\ sent = [i \in ValidIds |-> 0]
    /\ ev = NoEv
    /\ ran = {}

\* the states a first "/tempmail new" leaves when it succeeds: the mailbox
\* installed, the chat created, the known ids primed with the valid ids of
\* the inbox (or empty when priming failed), the polling task created
InitRunning ==
    /\ mailbox = 1
    /\ address = [b \in Boxes |-> IF b = 1 THEN "x" ELSE ""]
    /\ token \in {[b \in Boxes |-> b = 1 /\ v] : v \in BOOLEAN}
    /\ mail_chat = 1
    /\ mail_chat_peer = 1
    /\ poll_task = 1
    /\ known_message_ids \in SUBSET ValidIds
    /\ tasks = [t \in Tasks |-> IF t = 1 THEN NewTask ELSE FreeTask]
    /\ cmd = [c \in Cmds |-> IdleCmd]
    /\ sent = [i \in ValidIds |-> 0]
    /\ ev = NoEv
    /\ ran = {}

\* the steps of the polling tasks; L are the listings the provider may give
PollRun(L) ==
    \E t \in Tasks :
        \/ PollStart(t)
        \/ \E out \in {"ok", "err"} : PollTokenResp(t, out)
        \/ \E out \in {"ok", "401", "err"} :
              \E l \in Answers(L, tasks[t].f, out) : PollReqResp(t, out, l)
        \/ \E out \in {"ok", "err"} : PollSendResp(t, out)
        \/ PollWake(t)
        \/ PollRestart(t)

PollStop == \E t \in Tasks : PollCancelled(t)

\* the steps of a "/tempmail new" run by coroutine c
CreateNext(c) ==
    \/ \E a \in GenAnswers, login \in Logins :
          NAlloc < MaxCreates /\ CmdNew(c, a, login)
    \/ CmdAwaitStop(c)
    \/ \E out \in {"ok", "raise", "nochats"} : CmdChatResp(c, out)
    \/ \E out \in {"ok", "err"} : CmdEntityResp(c, out)
    \/ \E out \in {"ok", "err"} : CmdWelcomeResp(c, out)

\* the steps of a _fetch_* call made by coroutine c
FetchNext(c, L) ==
    \/ \E out \in {"ok", "err"} : CmdTokenResp(c, out)
    \/ \E out \in {"ok", "401", "err"} :
          \E l \in Answers(L, cmd[c].f, out) : CmdReqResp(c, out, l)

\* the steps of "/tempmail inbox" and "/tempmail read" run by coroutine c
ReadNext(c) ==
    \/ CmdInbox(c)
    \/ \E rid \in {"a", " "} : CmdRead(c, rid)

\* mailbox lifecycle: "/tempmail new" commands, one at a time, and polling
Next ==
    \/ PollRun(Listings(MaxListCmd))
    \/ PollStop
    \/ CreateNext(1)
    \/ FetchNext(1, Listings(MaxListCmd))

Spec == Init /\ [][Next]_vars

\* polling alone, for one mailbox
NextPoll == PollRun(Listings(MaxList))

SpecPoll == InitRunning /\ [][NextPoll]_vars

\* one mailbox, polling, and the commands that read it
NextSession ==
    \/ PollRun(Listings(MaxListCmd))
    \/ ReadNext(1)
    \/ FetchNext(1, Listings(MaxListCmd))

SpecSession == (Init \/ InitRunning) /\ [][NextSession]_vars

\* the same, from the states in which the MailAccount still has the token it
\* was constructed with (line 289)
InitCached == InitRunning /\ token[mailbox]
SpecAuth == InitCached /\ [][NextSession]_vars

\* the command without argument, issued again and again, with polling
ShowNext(c) ==
    \/ \E a \in GenAnswers, login \in Logins : CmdCurrent(c, a, login)
    \/ \E out \in {"ok", "raise", "nochats"} : CmdChatResp(c, out)
    \/ \E out \in {"ok", "err"} : CmdEntityResp(c, out)
    \/ \E out \in {"ok", "err"} : CmdWelcomeResp(c, out)

NextShow ==
    \/ PollRun(Listings(MaxListCmd))
    \/ ShowNext(1)
    \/ FetchNext(1, Listings(MaxListCmd))

SpecShow == Init /\ [][NextShow]_vars

\* "/tempmail new" commands that overlap, under the order of the event loop
\* (see CallSoonQueued): while a wake-up or a first step is queued, a
\* coroutine that has run since is not resumed, a task that is suspended in
\* a request or a sleep is not resumed, and a queued first step runs after
\* the wake-ups, which were queued before it.
Woken(c) == cmd[c].pc = "awaitstop" /\ Terminated(tasks[cmd[c].stopTask])
WakeupQueued == \E c \in Cmds : Woken(c)
Queued == CallSoonQueued(tasks, cmd)
MayRun(c) == Queued => (c \notin ran /\ ~Woken(c))
GenOk == [dom |-> "ok", conflicts |-> 0, final |-> "ok", tok |-> "ok"]
OverlapListings == {l \in Listings(MaxListCmd) : \A i \in 1..Len(l) : l[i] = "a"}

OverlapCmd(c) ==
    \/ MayRun(c) /\ CmdNew(c, GenOk, "x")
    \/ CmdAwaitStop(c)
    \/ MayRun(c) /\ \E out \in {"ok", "raise", "nochats"} : CmdChatResp(c, out)
    \/ MayRun(c) /\ \E out \in {"ok", "err"} : CmdEntityResp(c, out)
    \/ MayRun(c) /\ \E out \in {"ok", "err"} : CmdWelcomeResp(c, out)
    \/ MayRun(c) /\ \E out \in {"ok", "err"} : CmdTokenResp(c, out)
    \/ MayRun(c) /\ \E out \in {"ok", "401", "err"} :
          \E l \in Answers(OverlapListings, cmd[c].f, out) : CmdReqResp(c, out, l)

OverlapPoll(t) ==
    \/ ~WakeupQueued /\ PollStart(t)
    \/ ~Queued /\ \E out \in {"ok", "err"} : PollTokenResp(t, out)
    \/ ~Queued /\ \E out \in {"ok", "401", "err"} :
          \E l \in Answers(OverlapListings, tasks[t].f, out) : PollReqResp(t, out, l)
    \/ ~Queued /\ \E out \in {"ok", "err"} : PollSendResp(t, out)
    \/ ~Queued /\ PollWake(t)
    \/ ~Queued /\ PollRestart(t)
    \/ ~WakeupQueued /\ (tasks[t].pc = "created" \/ ~Queued) /\ PollCancelled(t)

NextOverlap ==
    \/ \E t \in Tasks : OverlapPoll(t)
    \/ \E c \in Cmds : OverlapCmd(c)

SpecOverlap == Init /\ [][NextOverlap]_vars

TypeOK ==
    /\ mailbox \in 0..MaxBoxes
    /\ poll_task \in 0..NTasks
    /\ known_message_ids \subseteq ValidIds
    /\ \A t \in Tasks : tasks[t].pc \in {"free", "created", "tok", "req", "send",
                                          "sleep", "done", "cancelled"}
    /\ \A c \in Cmds : cmd[c].pc \in {"idle", "awaitstop", "mkchat", "entity",
                                       "welcome", "tok", "req"}
\* the polling task answers: fairness of the event loop (a ready task runs, a
\* sleep ends, every request is answered or times out), and a provider that
\* does not fail for ever: it issues a token, lists message m and gives the
\* detail of m infinitely often if asked infinitely often
TokenOkIn(what) ==
    \E t \in Tasks : tasks[t].f.what = what /\ PollTokenResp(t, "ok")
ListedOk(m) ==
    \E t \in Tasks, l \in Listings(MaxList) :
        /\ tasks[t].f.what = "list" /\ \E i \in DOMAIN l : l[i] = m
        /\ PollReqResp(t, "ok", l)
DetailTokenOk(m) ==
    \E t \in Tasks : /\ tasks[t].f.what = "detail"
                     /\ tasks[t].msgs[tasks[t].idx] = m
                     /\ PollTokenResp(t, "ok")
DetailOk(m) ==
    \E t \in Tasks : /\ tasks[t].f.what = "detail"
                     /\ tasks[t].msgs[tasks[t].idx] = m
                     /\ PollReqResp(t, "ok", <<>>)
PollFairness ==
    /\ WF_vars(NextPoll)
    /\ SF_vars(TokenOkIn("list")) /\ SF_vars(ListedOk("a"))
    /\ SF_vars(DetailTokenOk("a")) /\ SF_vars(DetailOk("a"))

LiveSpec == SpecPoll /\ PollFairness

\* ------------------------------------------------- _format_chat_email body
\* A body is a string over a letter and a blank, written as its runs of equal
\* characters: <<[c |-> "a", n |-> 1999], [c |-> " ", n |-> 1]>> is 1999
\* letters followed by one blank.  Adjacent runs differ in their character.
BodyCap == 2000
MaxRuns == 3
Chars == {"a", " "}
RunLens == {1, 2, BodyCap - 1, BodyCap}
Runs == [c : Chars, n : RunLens]
Bodies ==
    {b \in UNION {[1..k -> Runs] : k \in 0..MaxRuns} :
        \A i \in 1..(Len(b) - 1) : b[i].c # b[i + 1].c}

\* len(s)
RECURSIVE BLen(_)
BLen(b) == IF b = <<>> THEN 0 ELSE b[1].n + BLen(Tail(b))

\* s.lstrip(), s.rstrip(), s.strip()
LStrip(b) == IF b # <<>> /\ b[1].c = " " THEN Tail(b) ELSE b
RStrip(b) ==
    IF b # <<>> /\ b[Len(b)].c = " " THEN SubSeq(b, 1, Len(b) - 1) ELSE b
StripBody(b) == RStrip(LStrip(b))

\* s[:k]
RECURSIVE Take(_, _)
Take(b, k) ==
    IF b = <<>> \/ k <= 0 THEN <<>>
    ELSE IF b[1].n <= k THEN <<b[1]>> \o Take(Tail(b), k - b[1].n)
         ELSE <<[c |-> b[1].c, n |-> k]>>

\* lines 579-580: the text and whether the marker follows it
\* (TruncateFromCap: the code with >= in place of >)
TruncateFromCap(t) ==
    IF BLen(t) >= BodyCap
    THEN [text |-> RStrip(Take(t, BodyCap)), marker |-> TRUE]
    ELSE [text |-> t, marker |-> FALSE]
Truncate(t) ==
    IF BLen(t) > BodyCap
    THEN [text |-> RStrip(Take(t, BodyCap)), marker |-> TRUE]
    ELSE [text |-> t, marker |-> FALSE]

\* lines 575-583: what is put into the body section of the notification
\* (before escape_html); a body that is not a string, or is blank, gives
\* none
NoBody == [text |-> <<>>, marker |-> FALSE]
FormatBody(body) ==
    IF ~body.str THEN NoBody
    ELSE IF StripBody(body.s) = <<>> THEN NoBody
         ELSE Truncate(StripBody(body.s))

\* the values of the body field of a message detail: a string or not
BodyValues ==
    {[str |-> TRUE, s |-> b] : b \in Bodies} \cup {[str |-> FALSE, s |-> <<>>]}

FormatEv(k, body, out) ==
    [who |-> 0, k |-> k, id |-> "", call |-> NoFrame, task |-> 0,
     iter |-> NoIter, n |-> 0, body |-> body, out |-> out]

\* a message detail whose body is any of the bodies is about to be formatted
InitFormat ==
    /\ mailbox = 1
    /\ address = [b \in Boxes |-> IF b = 1 THEN "x" ELSE ""]
    /\ token = [b \in Boxes |-> b = 1]
    /\ mail_chat = 1
    /\ mail_chat_peer = 1
    /\ poll_task = 1
    /\ known_message_ids = {}
    /\ tasks = [t \in Tasks |-> IF t = 1 THEN NewTask ELSE FreeTask]
    /\ cmd = [c \in Cmds |-> IdleCmd]
    /\ sent = [i \in ValidIds |-> 0]
    /\ \E b \in BodyValues : ev = FormatEv("detail", b, NoBody)
    /\ ran = {}

\* _format_chat_email(data)
FormatChatEmail ==
    /\ ev.k = "detail"
    /\ ev' = FormatEv("formatted", ev.body, FormatBody(ev.body))
    /\ UNCHANGED <<mailbox, address, token, mail_chat, mail_chat_peer,
                   poll_task, known_message_ids, tasks, cmd, sent, ran>>

NextFormat == FormatChatEmail
SpecFormat == InitFormat /\ [][NextFormat]_vars

\* ------------------------------------------------ the known ids on their own
\* The three operations the module applies to self._known_message_ids, taken
\* on their own: the assignment of line 406 (prime), the guards of lines
\* 453-456 applied to a whole listing (filter), the add of line 470 (mark).
\* the items of a listing that the two guards of _poll_once let through,
\* from item i on, the known ids staying as they are
RECURSIVE FilterNew(_, _, _)
FilterNew(msgs, i, known) ==
    LET j == NextNew(msgs, i, known) IN
    IF j > Len(msgs) THEN <<>>
    ELSE <<msgs[j]>> \o FilterNew(msgs, j + 1, known)

\* history: the operation (k), its listing or id, its result, the known ids
\* before it, and the operation before it when it is of interest (pk, with
\* pl its listing, pid its id): the prime before a filter, the mark before a
\* mark
NoPrev == [k |-> "", l |-> <<>>, id |-> ""]
PrevOf(k, e) ==
    IF k = "filter" /\ e.k = "prime" THEN [k |-> "prime", l |-> e.l, id |-> ""]
    ELSE IF k = "mark" /\ e.k = "mark" THEN [k |-> "mark", l |-> <<>>, id |-> e.id]
    ELSE NoPrev
TrackEv(k, l, id, out, before, prev) ==
    [who |-> 0, k |-> k, id |-> id, call |-> NoFrame, task |-> 0,
     iter |-> NoIter, n |-> 0, l |-> l, out |-> out, before |-> before,
     pk |-> prev.k, pl |-> prev.l, pid |-> prev.id]

InitTrack ==
    /\ mailbox = 0
    /\ address = [b \in Boxes |-> ""]
    /\ token = [b \in Boxes |-> FALSE]
    /\ mail_chat = 0
    /\ mail_chat_peer = 0
    /\ poll_task = 0
    /\ known_message_ids = {}
    /\ tasks = [t \in Tasks |-> FreeTask]
    /\ cmd = [c \in Cmds |-> IdleCmd]
    /\ sent = [i \in ValidIds |-> 0]
    /\ ev = TrackEv("init", <<>>, "", <<>>, {}, NoPrev)
    /\ ran = {}

\* line 406, messages being the listing l
TrackPrime(l) ==
    /\ known_message_ids' = PrimeIds(l)
    /\ ev' = TrackEv("prime", l, "", <<>>, known_message_ids, PrevOf("prime", ev))
    /\ UNCHANGED <<mailbox, address, token, mail_chat, mail_chat_peer,
                   poll_task, tasks, cmd, sent, ran>>

\* lines 453-456, over the listing l
TrackFilter(l) ==
    /\ ev' = TrackEv("filter", l, "", FilterNew(l, 1, known_message_ids),
                     known_message_ids, PrevOf("filter", ev))
    /\ UNCHANGED <<mailbox, address, token, mail_chat, mail_chat_peer,
                   poll_task, known_message_ids, tasks, cmd, sent, ran>>

\* line 470, for an id that has passed the guards
TrackMark(id) ==
    /\ known_message_ids' = MarkSeen(known_message_ids, id)
    /\ ev' = TrackEv("mark", <<>>, id, <<>>, known_message_ids, PrevOf("mark", ev))
    /\ UNCHANGED <<mailbox, address, token, mail_chat, mail_chat_peer,
                   poll_task, tasks, cmd, sent, ran>>

NextTrack ==
    \/ \E l \in Listings(MaxList) : TrackPrime(l)
    \/ \E l \in Listings(MaxList) : TrackFilter(l)
    \/ \E id \in ValidIds : TrackMark(id)

SpecTrack == InitTrack /\ [][NextTrack]_vars

\* --------------------------------------------- ModuleMenu (module_menu.py)
\* The inline browser of the loaded modules.  ModuleMenu keeps no page of
\* its own: the page a form shows lives in the arguments of the callbacks of
\* its buttons, and every callback collects the module list anew.  The
\* sorted list of n modules is written <<1, ..., n>>; the form on display is
\* recorded in ev: its kind (k), the size n of the list it was built from,
\* the page that was asked for (req), the page shown, the page count and the
\* modules listed.
MaxModules == 19
page_size == 6

Max2(a, b) == IF a >= b THEN a ELSE b
Min2(a, b) == IF a <= b THEN a ELSE b

Modules(n) == [i \in 1..n |-> i]

\* max(math.ceil(total / self._page_size), 1)
\* (PageCountFloor: the code with math.floor)
PageCountFloor(n) == Max2(n \div page_size, 1)
PageCount(n) == Max2((n + page_size - 1) \div page_size, 1)

\* s[a:b] for a list s and integers a, b
PySlice(s, a, b) ==
    LET n  == Len(s)
        lo == IF a < 0 THEN Max2(a + n, 0) ELSE Min2(a, n)
        hi == IF b < 0 THEN Max2(b + n, 0) ELSE Min2(b, n)
    IN [i \in 1..Max2(hi - lo, 0) |-> s[lo + i]]

\* lines 92-97 of inline__modmenu_page
ClampRequested(page, pages) ==
    IF page < 0 THEN 0
    ELSE IF page >= pages THEN pages - 1
    ELSE page

MenuEv(k, n, req, page, pages, mods) ==
    [who |-> 0, k |-> k, id |-> "", call |-> NoFrame, task |-> 0,
     iter |-> NoIter, n |-> n, req |-> req, page |-> page, pages |-> pages,
     mods |-> mods]

\* _build_page_content(modules, page), for the list of n modules; req is
\* the page the callback was called with
BuildPageContent(n, page, req) ==
    LET pages == PageCount(n)
        p     == Max2(0, Min2(page, pages - 1))
        start == p * page_size
    IN MenuEv("page", n, req, p, pages,
              PySlice(Modules(n), start, start + page_size))

\* no form on display yet
InitMenu ==
    /\ mailbox = 0
    /\ address = [b \in Boxes |-> ""]
    /\ token = [b \in Boxes |-> FALSE]
    /\ mail_chat = 0
    /\ mail_chat_peer = 0
    /\ poll_task = 0
    /\ known_message_ids = {}
    /\ tasks = [t \in Tasks |-> FreeTask]
    /\ cmd = [c \in Cmds |-> IdleCmd]
    /\ sent = [i \in ValidIds |-> 0]
    /\ ev = MenuEv("none", 0, 0, 0, 0, <<>>)
    /\ ran = {}

MenuFrame ==
    UNCHANGED <<mailbox, address, token, mail_chat, mail_chat_peer, poll_task,
                known_message_ids, tasks, cmd, sent, ran>>

\* the modmenu command, n modules being loaded
Modmenu(n) ==
    /\ ev' = IF n = 0 THEN MenuEv("empty", 0, 0, 0, 0, <<>>)
             ELSE BuildPageContent(n, 0, 0)
    /\ MenuFrame

\* inline__modmenu_page(call, page): one of the two arrows of the page form
\* is pressed (d = -1, 1), n modules being loaded by now
ModmenuPage(n, d) ==
    /\ ev.k = "page" /\ ev.pages > 1
    /\ LET page == ev.page + d IN
       ev' = IF n = 0 THEN MenuEv("unloaded", 0, page, 0, 0, <<>>)
             ELSE BuildPageContent(n, ClampRequested(page, PageCount(n)), page)
    /\ MenuFrame

\* inline__modmenu_module(call, module_id, page): the button of a listed
\* module is pressed; found: the module is still among the n loaded ones
ModmenuModule(n, found) ==
    /\ ev.k = "page" /\ ev.mods # <<>>
    /\ found => n >= 1
    /\ ev' = IF found THEN MenuEv("module", n, ev.page, ev.page, 0, <<>>)
             ELSE BuildPageContent(n, 0, 0)
    /\ MenuFrame

\* inline__modmenu_back(call, page): the back button of the module form
ModmenuBack(n) ==
    /\ ev.k = "module"
    /\ ev' = IF n = 0 THEN MenuEv("unloaded", 0, ev.page, 0, 0, <<>>)
             ELSE BuildPageContent(n, Max2(ev.page, 0), ev.page)
    /\ MenuFrame

NextMenu ==
    \/ \E n \in 0..MaxModules : Modmenu(n)
    \/ \E n \in 0..MaxModules, d \in {0 - 1, 1} : ModmenuPage(n, d)
    \/ \E n \in 0..MaxModules, found \in BOOLEAN : ModmenuModule(n, found)
    \/ \E n \in 0..MaxModules : ModmenuBack(n)

SpecMenu == InitMenu /\ [][NextMenu]_vars

\* ------------------------------------------------------------------ claims

\* C1: whatever "/tempmail new" commands, iterations, failed iterations and
\* restarts have happened, at most one polling task is alive (created and
\* not yet terminated).
AtMostOneLoopAlive == Cardinality({t \in Tasks : Alive(tasks[t])}) <= 1

\* the loop of a second mailbox has been restarted after a failed iteration
RestartedLoopOfSecondMailbox ==
    /\ mailbox = 2 /\ ev.k = "restart"
    /\ \E t \in Tasks : poll_task = t /\ tasks[t].pc = "created"

\* C2: a step that installs a new MailAccount finds the prior polling task
\* cancelled and terminated, and clears the known ids; every task that has
\* started and not terminated was started for the current mailbox, and a
\* step of a task that marks an id or offers a message to the sink belongs to
\* the current mailbox.
StoppedBeforeInstall ==
    [][ /\ mailbox' # mailbox =>
            /\ \A t \in Tasks : ~Alive(tasks[t]) /\ ~Alive(tasks'[t])
            /\ ev'.task # 0 => tasks[ev'.task].pc = "cancelled"
            /\ known_message_ids' = {} /\ poll_task' = 0
        /\ \A t \in Tasks :
              tasks'[t].pc \in {"tok", "req", "send", "sleep"} =>
                  tasks'[t].tbox = mailbox'
        /\ \A t \in Tasks :
              (ev'.who = t /\ (known_message_ids' # known_message_ids \/ sent' # sent))
                  => tasks[t].tbox = mailbox /\ mailbox' = mailbox
      ]_vars

\* a second mailbox was installed after the loop of the first was cancelled
\* and awaited
InstalledAfterAwaitedStop ==
    /\ ev.k = "installed" /\ ev.task # 0
    /\ mailbox = 2 /\ known_message_ids = {}

\* C3: within one mailbox lifetime no message id is offered to the sink more
\* than once.
AtMostOneDeliveryPerId == \A id \in ValidIds : sent[id] <= 1

\* an iteration listed again an id that was offered to the sink before, and
\* offered nothing
ListedAgainNotDelivered ==
    /\ ev.iter.on /\ ev.iter.deliv = <<>>
    /\ \E id \in PrimeIds(ev.iter.l) : sent[id] = 1 /\ id \in known_message_ids

\* C4: an iteration without detail failure offers to the sink exactly the
\* valid ids of its listing that were not known when the listing arrived,
\* each once, and all of them are known when it ends; an iteration whose
\* listing repeats ids the previous (failure-free) iteration listed offers
\* nothing.
DeliversExactlyNew ==
    ev.iter.on =>
        LET it == ev.iter
            D  == {it.deliv[i] : i \in DOMAIN it.deliv}
        IN /\ ~it.dfail => /\ D = PrimeIds(it.l) \ it.k0
                           /\ Len(it.deliv) = Cardinality(D)
                           /\ PrimeIds(it.l) \subseteq known_message_ids
           /\ it.same => it.deliv = <<>>

\* "a" was primed, "b" was delivered by an earlier iteration, and this
\* iteration listed both again
SameListingAgain ==
    /\ ev.iter.on /\ ev.iter.same
    /\ PrimeIds(ev.iter.l) = {"a", "b"}
    /\ sent["a"] = 0 /\ sent["b"] = 1

\* C5: when the send of a message fails, its id is marked all the same, the
\* task goes on with the next new message of the listing (or sleeps the poll
\* interval when there is none), and no step offers a known id to the sink.
SinkFailureSwallowed ==
    [][ /\ ev'.k = "send_fail" =>
            LET r  == tasks[ev'.who]
                r2 == tasks'[ev'.who]
            IN /\ ev'.id \in known_message_ids'
               /\ \/ /\ r2.pc \in {"tok", "req"} /\ r2.f.what = "detail"
                     /\ r2.idx > r.idx
                  \/ /\ r2.pc = "sleep" /\ r2.dur = poll_interval
                     /\ \A j \in (r.idx + 1)..Len(r.msgs) :
                           IsSkipped(r.msgs, j, known_message_ids')
        /\ \A id \in known_message_ids : sent'[id] = sent[id]
      ]_vars

\* a send failed and the task is fetching the next message of the listing
SendFailedThenNext ==
    /\ ev.k = "send_fail"
    /\ \E t \in Tasks : ev.who = t /\ tasks[t].f.what = "detail"
\* C6: a _fetch_* call issues at most two requests and, after a 401, one
\* token request; a 401 on the first attempt clears the cached token and is
\* followed by exactly one re-authentication and, once that has succeeded,
\* exactly one retry; a call fails with 401 only on that retry, and a call
\* whose first attempt got no 401 issues a single request.
OneRetryOn401 ==
    /\ \A f \in {tasks[t].f : t \in Tasks} \cup {cmd[c].f : c \in Cmds} \cup {ev.call} :
          /\ f.nreq <= 2 /\ f.nauth <= 1
          /\ f.e1 => f.nauth = 1
          /\ ~f.e1 => f.nauth = 0 /\ f.nreq <= 1
          /\ (f.e1 /\ f.st \in {"req", "ok"}) => f.nreq = 2
          /\ f.fres = "401" => f.e1 /\ f.nreq = 2 /\ f.st = "fail"
    /\ ev.k = "retry401" => ev.call.st = "tok" /\ ~token[ev.call.box]

\* the retry of a call got 401 too and the call raised it
SecondUnauthorizedRaised == ev.call.fres = "401" /\ ev.call.st = "fail"

ListingErrorBacksOff ==
    [][ /\ ev'.k = "list_fail" => InBackoff(tasks'[ev'.who])
        /\ \A t \in Tasks :
              (InBackoff(tasks[t]) /\ ev'.who = t) =>
                  /\ ev'.k = "restart"
                  /\ {s \in Tasks : tasks'[s].pc # "free"} = {poll_task'}
                  /\ tasks'[poll_task'] = NewTask
        /\ ev'.k = "detail_fail" =>
              LET r2 == tasks'[ev'.who] IN
              /\ ~InBackoff(r2) /\ Alive(r2)
              /\ ev'.id \notin known_message_ids'
              /\ known_message_ids' = known_message_ids
      ]_vars

\* C8 (as stated): an error while listing or while fetching a detail puts
\* the task into the error backoff.
AnyErrorBacksOff ==
    ev.k \in {"list_fail", "detail_fail"} => InBackoff(tasks[ev.who])

\* a detail fetch failed and the task is not in the error backoff
DetailErrorSkipped ==
    /\ ev.k = "detail_fail"
    /\ \E t \in Tasks : ev.who = t /\ Alive(tasks[t]) /\ ~InBackoff(tasks[t])

\* C9: a task cancelled in either sleep is terminated with no request in
\* flight, no task is alive and the handle is empty.
CancelledAtSleepStops ==
    (ev.k = "cancelled" /\ ev.id \in {"sleep30", "sleep10"}) =>
        /\ poll_task = 0
        /\ tasks[ev.who] = [FreeTask EXCEPT !.pc = "cancelled"]
        /\ \A s \in Tasks : ~Alive(tasks[s])

\* a task was cancelled in the error backoff
CancelledInBackoff == ev.k = "cancelled" /\ ev.id = "sleep10"

\* C10: with a mailbox and a sink present and no cancellation, a polling
\* task is always alive; after a failed listing a list request is issued
\* again; and a message that is not known yet is eventually offered to the
\* sink.
PollingNeverStops ==
    /\ [](\E t \in Tasks : Alive(tasks[t]))
    /\ (ev.k = "list_fail") ~>
           (\E t \in Tasks : tasks[t].pc = "req" /\ tasks[t].f.what = "list")
    /\ ("a" \notin known_message_ids) ~> (sent["a"] >= 1)

\* the task created by a restart has started and issued a list request
RestartedLoopLists ==
    ev.k = "start" /\ ev.n = 1 /\ ev.call.st = "req" /\ ev.call.what = "list"

\* C11 (as stated): while the mailbox stays the same no step removes an id
\* from the known ids; a step that replaces the mailbox leaves them empty;
\* and they become empty only in such a step.
KnownOnlyGrows ==
    [][ /\ mailbox' = mailbox => known_message_ids \subseteq known_message_ids'
        /\ mailbox' # mailbox => known_message_ids' = {}
        /\ (known_message_ids' = {} /\ known_message_ids # {}) => mailbox' # mailbox
      ]_vars

\* C12 (as amended): when the sink was created, the command ends by starting
\* the polling loop; if the priming listing was obtained the known ids are
\* then exactly the valid ids of that listing and none of them has been
\* delivered, if it failed the known ids are empty; and for as long as the
\* mailbox stays, no step delivers an id that is known.
StartsPrimedIfListed ==
    [][ /\ (ev'.k = "new_done" /\ ev'.id # "chat_failed") =>
              /\ ev'.task # 0 /\ poll_task' = ev'.task
              /\ tasks'[ev'.task] = NewTask
              /\ ev'.id = "primed" =>
                    /\ known_message_ids' =
                          {ev'.iter.l[i] : i \in 1..Len(ev'.iter.l)} \cap ValidIds
                    /\ \A id \in known_message_ids' \cap ValidIds : sent'[id] = 0
              /\ ev'.id = "unprimed" => known_message_ids' = {}
        /\ mailbox' = mailbox =>
              \A id \in known_message_ids \cap ValidIds : sent'[id] = sent[id]
      ]_vars

\* the loop of the second mailbox was started with an id of the inbox known
PrimedWithListing ==
    /\ ev.k = "new_done" /\ ev.id = "primed" /\ mailbox = 2
    /\ known_message_ids = {"a"} /\ poll_task # 0

\* C12 (as stated): whenever the command starts the polling loop, the known
\* ids have been set from a listing of the inbox.
StartsPrimed == (ev.k = "new_done" /\ ev.task # 0) => ev.id = "primed"

\* C13: when the sink creation of a create_new fails (CreateChannelRequest
\* raises or returns no chat), the command ends with the mailbox it generated
\* installed under its address, no sink and no sink peer recorded, the known
\* ids empty, the handle empty and no polling task alive.
SinkFailureKeepsMailbox ==
    [][ \A c \in Cmds :
          (ev'.who = CmdId(c) /\ ev'.k = "new_done" /\ ev'.id = "chat_failed") =>
              /\ cmd[c].pc = "mkchat"
              /\ mailbox' = cmd[c].newbox /\ mailbox' # 0
              /\ address'[mailbox'] \in Logins
              /\ mail_chat' = 0 /\ mail_chat_peer' = 0
              /\ known_message_ids' = {}
              /\ poll_task' = 0
              /\ \A t \in Tasks : ~Alive(tasks'[t])
      ]_vars

\* the second mailbox was installed and its sink creation failed
ReplacedWithoutSink ==
    /\ ev.k = "new_done" /\ ev.id = "chat_failed"
    /\ mailbox = 2 /\ address[2] \in Logins /\ poll_task = 0

\* C16: the module starts with no mailbox, and once a mailbox is active no
\* step leaves the module without one.
NeverEmptyAgain == mailbox = 0 /\ [][mailbox # 0 => mailbox' # 0]_vars

\* a create_new failed while the first mailbox was active, which stays
FailedCreateKeepsMailbox == ev.k = "new_failed" /\ mailbox = 1 /\ poll_task # 0

\* C14 (as amended): the command without argument, issued while a mailbox
\* is active, answers with the address of that mailbox and changes nothing;
\* issued while none is active it runs create_new: it ends in a failed
\* generation or installs a mailbox.
CurrentOrCreate ==
    [][ (cmd[1].pc = "idle" /\ ev'.who = CmdId(1)) =>
          IF mailbox # 0
          THEN /\ ev'.k = "current" /\ ev'.id = address[mailbox]
               /\ ev'.id \in Logins
               /\ UNCHANGED <<mailbox, address, token, mail_chat,
                              mail_chat_peer, poll_task, known_message_ids,
                              tasks, cmd, sent>>
          ELSE \/ ev'.k = "new_failed" /\ mailbox' = 0
               \/ ev'.k = "installed" /\ mailbox' # 0
      ]_vars

\* the address of the active, polled mailbox was answered
CurrentAnswered ==
    /\ ev.k = "current" /\ ev.id = address[mailbox] /\ mailbox = 1
    /\ poll_task # 0

\* C14 (as stated): the command without argument only ever answers: with
\* the address when a mailbox is active, with NoMailbox when none is, so it
\* never generates or installs a mailbox.
CurrentOnlyAnswers == ev.k \notin {"new_failed", "installed", "cancel"}

\* C15: an inbox or read command issued with no mailbox answers NoMailbox,
\* whatever its id is; a read command issued with a mailbox and an id that is
\* blank answers InvalidArgument; in both cases the step issues no request
\* (no call frame is opened, the coroutine stays idle) and changes no field;
\* and a read command that does open a call has an id that is not blank.
ValidatedBeforeRequest ==
    [][ (cmd[1].pc = "idle" /\ ev'.who = CmdId(1)) =>
          /\ mailbox = 0 => ev'.k = "no_mailbox"
          /\ ev'.k = "no_mailbox" => mailbox = 0
          /\ ev'.k = "invalid_id" => mailbox # 0 /\ ev'.id = " "
          /\ ev'.k = "cmd_read" => ev'.id \in ValidIds
          /\ ev'.k \in {"no_mailbox", "invalid_id"} =>
                /\ ev'.call = NoFrame /\ cmd'[1].pc = "idle"
                /\ UNCHANGED <<mailbox, address, token, mail_chat,
                               mail_chat_peer, poll_task, known_message_ids,
                               tasks, cmd, sent>>
      ]_vars

\* a read command with a blank id was refused while the mailbox is polled
BlankIdRefused == ev.k = "invalid_id" /\ mailbox # 0 /\ poll_task # 0

BodyCapped ==
    (ev.k = "formatted" /\ ev.body.str) =>
        LET t == StripBody(ev.body.s) IN
        /\ BLen(t) <= BodyCap => ev.out = [text |-> t, marker |-> FALSE]
        /\ BLen(t) > BodyCap =>
              /\ ev.out.marker
              /\ ev.out.text = RStrip(Take(t, BodyCap))
              /\ BLen(ev.out.text) <= BodyCap
              /\ BLen(ev.out.text) = BodyCap <=> Take(t, BodyCap) = ev.out.text

\* a body of more than 2000 characters whose 2000th character is a blank
\* was cut to 1999 characters and the marker
CutShorterThanCap ==
    /\ ev.k = "formatted" /\ ev.body.str /\ BLen(ev.body.s) > BodyCap
    /\ ev.out.marker /\ BLen(ev.out.text) = BodyCap - 1

\* C18 (as stated): a body of more than 2000 characters is put into the
\* notification as its first 2000 characters followed by the marker, and a
\* body of exactly 2000 characters as it is.
BodyCutAtCap ==
    (ev.k = "formatted" /\ ev.body.str) =>
        /\ BLen(ev.body.s) > BodyCap =>
              ev.out = [text |-> Take(ev.body.s, BodyCap), marker |-> TRUE]
        /\ BLen(ev.body.s) = BodyCap =>
              ev.out = [text |-> ev.body.s, marker |-> FALSE]

HandleTracksLoop ==
    /\ [][ /\ (ev'.k = "new_done" /\ ev'.id # "chat_failed" /\ poll_task # 0) =>
                /\ ev'.task = 0
                /\ tasks' = tasks /\ poll_task' = poll_task
           /\ (ev'.k = "exit" \/ (ev'.k = "cancelled" /\ ev'.id # "created")) =>
                /\ poll_task' # ev'.who
                /\ poll_task = ev'.who => poll_task' = 0
         ]_vars
    /\ [](poll_task # 0 =>
            \/ Alive(tasks[poll_task])
            \/ /\ tasks[poll_task].pc = "cancelled"
               /\ \E c \in Cmds : Woken(c) /\ cmd[c].stopTask = poll_task)

\* a _start_polling found the handle set and created no task
StartWhileRegistered ==
    /\ ev.k = "new_done" /\ ev.id = "primed" /\ ev.task = 0
    /\ poll_task # 0 /\ Alive(tasks[poll_task])

\* C17 (as stated, its last part): whenever the handle is set it designates
\* a task that has not terminated.
HandleIsLive == poll_task # 0 => Alive(tasks[poll_task])

\* C21: a "/tempmail new" whose generation fails for another reason than a
\* conflict fails in the step of that answer: a failed GET /domains is
\* followed by no POST /accounts; a POST /accounts answered with an error
\* other than 422 is the last one (it follows the conflicts answered before
\* it and nothing follows it); a failed POST /token follows the one accepted
\* POST /accounts and nothing follows it; and each of these answers makes
\* the command fail with that reason.
SurfacedAtOnce ==
    ev.k = "new_failed" =>
        LET a == ev.ans IN
        /\ a.dom = "err" <=> ev.id = "domain"
        /\ ev.id = "domain" => ev.n = 0
        /\ (a.dom = "ok" /\ a.conflicts < AccountAttempts /\ a.final = "err")
              <=> ev.id = "provider"
        /\ ev.id = "provider" => ev.n = a.conflicts + 1
        /\ (a.dom = "ok" /\ a.conflicts < AccountAttempts /\ a.final = "ok"
               /\ a.tok = "err") <=> ev.id = "token"
        /\ ev.id = "token" => ev.n = a.conflicts + 1
        /\ ev.id \in {"domain", "provider", "token", "exhausted"}

\* the third POST /accounts, after two conflicts, was answered with an error
\* other than 422 and the command failed
ProviderErrorAfterConflicts ==
    /\ ev.k = "new_failed" /\ ev.id = "provider"
    /\ ev.ans.conflicts = 2 /\ ev.n = 3

\* C22: a "/tempmail new" whose generation fails (domain, provider error,
\* token, or retries exhausted) changes no field of the module: the mailbox
\* and its address and token, the sink and its peer, the known ids, the
\* handle and the polling tasks are what they were, no cancellation was
\* requested, and the command coroutine is idle again; a polling task that
\* had started keeps the mailbox it started for, which is still the active
\* one.
FailedCreateTouchesNothing ==
    [][ ev'.k = "new_failed" =>
          /\ UNCHANGED <<mailbox, address, token, mail_chat, mail_chat_peer,
                         known_message_ids, poll_task, tasks, cmd, sent>>
          /\ ev'.id \in {"domain", "provider", "token", "exhausted"}
          /\ \A t \in Tasks :
                Alive(tasks'[t]) =>
                    /\ ~tasks'[t].cancel /\ poll_task' = t
                    /\ tasks'[t].pc # "created" => tasks'[t].tbox = mailbox'
      ]_vars

\* a create_new failed on its token while the loop of the first mailbox was
\* asleep between two iterations, with a message already delivered
FailedWhileLoopSleeps ==
    /\ ev.k = "new_failed" /\ ev.id = "token" /\ mailbox = 1
    /\ mail_chat_peer = 1 /\ known_message_ids = {"a"} /\ sent["a"] = 1
    /\ poll_task # 0 /\ tasks[poll_task].pc = "sleep" /\ ~tasks[poll_task].cancel

\* C23: the step in which the detail fetch of a new message fails offers
\* nothing to the sink and leaves the known ids as they were, without the
\* id of that message, and the task goes on with the next new message of the
\* listing (or sleeps the poll interval when there is none); an iteration
\* fetches the detail of every valid id of its listing that was not known
\* when the listing arrived; an id whose fetch failed and that was not
\* offered is unknown and undelivered when the iteration ends; and an
\* iteration that lists an id whose fetch failed before, and that has not
\* been offered since, fetches its detail again.
DetailFailureSkipsOne ==
    /\ [][ ev'.k = "detail_fail" =>
              LET r  == tasks[ev'.who]
                  r2 == tasks'[ev'.who]
              IN /\ known_message_ids' = known_message_ids
                 /\ ev'.id \notin known_message_ids'
                 /\ sent' = sent
                 /\ \/ /\ r2.pc \in {"tok", "req"} /\ r2.f.what = "detail"
                       /\ r2.idx = NextNew(r.msgs, r.idx + 1, known_message_ids)
                    \/ /\ ev'.iter.on
                       /\ NextNew(r.msgs, r.idx + 1, known_message_ids) > Len(r.msgs)
          ]_vars
    /\ [](ev.iter.on =>
            LET it == ev.iter
                D  == {it.deliv[i] : i \in DOMAIN it.deliv}
            IN /\ D \cup it.fails = PrimeIds(it.l) \ it.k0
               /\ \A id \in it.fails \ D :
                     id \notin known_message_ids /\ sent[id] = 0
               /\ it.pend \cap it.k0 = {}
               /\ it.pend \cap PrimeIds(it.l) \subseteq D \cup it.fails)

\* the detail fetch of "a" failed in an earlier iteration; this iteration
\* listed "a" again, fetched it and offered it to the sink, after the detail
\* fetch of "b", listed before it, had failed
FailedThenOfferedAgain ==
    /\ ev.iter.on /\ ev.iter.pend = {"a"} /\ ev.iter.l = <<"b", "a">>
    /\ ev.iter.fails = {"b"} /\ ev.iter.deliv = <<"a">>
    /\ "a" \in known_message_ids /\ "b" \notin known_message_ids

\* C24: the ids an iteration offers to the sink are items of its listing
\* taken in the order of the listing; a task that begins the detail fetch
\* of an item takes an item further down the listing than the one before,
\* is not awaiting a send, and every id it has offered in this iteration is
\* already known; and a task awaits the send of the item it fetched last.
ProviderOrder ==
    /\ [](ev.iter.on =>
            \E f \in [DOMAIN ev.iter.deliv -> DOMAIN ev.iter.l] :
                /\ \A i \in DOMAIN f : ev.iter.l[f[i]] = ev.iter.deliv[i]
                /\ \A i, j \in DOMAIN f : i < j => f[i] < f[j])
    /\ [][ \A t \in Tasks :
              LET r  == tasks[t]
                  r2 == tasks'[t]
              IN /\ (r2.f.what = "detail"
                    /\ (r.f.what # "detail" \/ r2.idx # r.idx)) =>
                       /\ r2.idx > r.idx
                       /\ r2.msgs = r.msgs \/ r.f.what = "list"
                       /\ \A i \in DOMAIN r2.deliv :
                             r2.deliv[i] \in known_message_ids'
                       /\ \A i \in (r.idx + 1)..(r2.idx - 1) :
                             IsSkipped(r2.msgs, i, known_message_ids')
                 /\ (r2.pc = "send" /\ r.pc # "send") =>
                       /\ r.f.what = "detail" /\ r2.idx = r.idx
                       /\ r2.deliv = Append(r.deliv, r.msgs[r.idx])
          ]_vars

\* an iteration listed "b" before "a" and offered them in that order
OfferedInListedOrder ==
    /\ ev.iter.on /\ ev.iter.l = <<"b", "a">> /\ ev.iter.deliv = <<"b", "a">>
    /\ known_message_ids = {"a", "b"}

\* a step in which a coroutine calls _auth_headers: its call frame f becomes
\* f2, which is not the same call going from its token request to its
\* request
CallsAuthHeaders(f, f2, moved) ==
    /\ f2.st \in {"tok", "req"}
    /\ f2 # f \/ moved
    /\ ~(f.st = "tok" /\ f2.st = "req" /\ f2.what = f.what /\ ~moved)

\* C25 (as amended): a call of _auth_headers issues a token request if and
\* only if the active MailAccount has no cached token when it is made; the
\* token it obtains is cached in that MailAccount; a 401 on the first
\* attempt of a request clears the cached token and the retry that follows
\* issues a token request; the cached token changes in no other step.  (So
\* every call made while no token is cached issues a token request: the
\* retry after the 401, and also any call made before that request is
\* answered or after it has failed.)
TokenOnDemand ==
    [][ /\ \A t \in Tasks :
              CallsAuthHeaders(tasks[t].f, tasks'[t].f, tasks'[t].idx # tasks[t].idx) =>
                  /\ tasks'[t].f.box = mailbox
                  /\ tasks'[t].f.st = "tok" <=> ~token'[mailbox]
        /\ \A c \in Cmds :
              CallsAuthHeaders(cmd[c].f, cmd'[c].f, FALSE) =>
                  /\ cmd'[c].f.box = mailbox
                  /\ cmd'[c].f.st = "tok" <=> ~token'[mailbox]
        /\ \A b \in Boxes :
              /\ (~token[b] /\ token'[b]) =>
                    /\ ev'.call.st = "req" /\ ev'.call.box = b
                    /\ \/ \E t \in Tasks : ev'.who = t /\ tasks[t].f.st = "tok"
                       \/ \E c \in Cmds : ev'.who = CmdId(c) /\ cmd[c].f.st = "tok"
              /\ (token[b] /\ ~token'[b]) =>
                    /\ ev'.k = "retry401" /\ b = mailbox
                    /\ ev'.call.st = "tok" /\ ev'.call.e1
        /\ ev'.k = "retry401" => ev'.call.st = "tok" /\ ~token'[mailbox]
        /\ \A t \in Tasks :
              (tasks[t].f.st = "tok" /\ ev'.who = t /\ ev'.call.st = "req") =>
                  token'[tasks[t].f.box]
        /\ \A c \in Cmds :
              (cmd[c].f.st = "tok" /\ ev'.who = CmdId(c) /\ ev'.call.st = "req") =>
                  token'[cmd[c].f.box]
      ]_vars

\* the polling task got a 401 and is re-acquiring the token; an inbox
\* command issued meanwhile has found no cached token and issued a token
\* request of its own
TwoTokenRequests ==
    /\ \E t \in Tasks : tasks[t].f.st = "tok" /\ tasks[t].f.e1
    /\ cmd[1].f.st = "tok" /\ ~cmd[1].f.e1 /\ ~token[mailbox]

\* C25 (as stated): the token is re-acquired by the call that follows an
\* on_auth_failure and by no other call; the MailAccount having its token
\* from the start, every token request therefore belongs to the retry that
\* follows a 401.
OnlyRetryReacquires ==
    \A f \in {tasks[t].f : t \in Tasks} \cup {cmd[c].f : c \in Cmds} :
        f.st = "tok" => f.e1

\* C26: while the task polls, the known ids change only in the step that
\* ends the send of a message, and only by the addition of the id of that
\* message, whose delivery was attempted; the step in which a listing
\* arrives and is filtered, and every other step of an iteration, leaves
\* them as they were.
OnlyMarkSeenMutates ==
    [][ /\ known_message_ids' # known_message_ids =>
              /\ ev'.k \in {"send_ok", "send_fail"}
              /\ \E t \in Tasks :
                    /\ ev'.who = t /\ tasks[t].pc = "send"
                    /\ tasks[t].msgs[tasks[t].idx] = ev'.id
              /\ known_message_ids' = known_message_ids \cup {ev'.id}
              /\ sent[ev'.id] >= 1
        /\ ev'.k \in {"start", "wake", "tok_ok", "retry401", "list_ok", "list_fail",
                      "detail_ok", "detail_fail", "restart", "exit"} =>
              known_message_ids' = known_message_ids
        /\ ev'.k = "list_ok" =>
              \A t \in Tasks :
                  ev'.who = t =>
                      (IF ev'.iter.on THEN ev'.iter.k0 ELSE tasks'[t].k0)
                          = known_message_ids
      ]_vars

\* a listing <<a, b>> arrived while only "a" was known; "b" was fetched,
\* its send failed, and the step that ended the send added "b"
MarkedAfterFailedSend ==
    /\ ev.k = "send_fail" /\ ev.id = "b" /\ ev.iter.on
    /\ ev.iter.l = <<"a", "b">> /\ ev.iter.k0 = {"a"}
    /\ known_message_ids = {"a", "b"}

\* C27: filtering a listing right after the known ids were primed from that
\* same listing lets no item through, whatever the listing.
PrimeThenFilterEmpty ==
    (ev.k = "filter" /\ ev.pk = "prime" /\ ev.pl = ev.l) => ev.out = <<>>

\* a listing of two valid ids was primed, then filtered
PrimedListingFiltered ==
    /\ ev.k = "filter" /\ ev.pk = "prime" /\ ev.pl = ev.l
    /\ ev.l = <<"b", "a">> /\ known_message_ids = {"a", "b"}
    /\ ev.out = <<>>

\* C28: no id that is empty or not a string is ever among the known ids;
\* priming from a listing makes the known ids exactly the non-empty string
\* ids of the listing; and filtering a listing lets through, in order,
\* exactly its items whose id is a non-empty string that is not known, so
\* that no item with an empty or non-string id is fetched or delivered.
InvalidIdsIgnored ==
    LET Bad(v) == v = "" \/ v = NonStr
        New(v) == ~Bad(v) /\ v \notin ev.before
    IN /\ \A v \in known_message_ids : ~Bad(v)
       /\ ev.k = "prime" =>
             known_message_ids = {v \in {ev.l[i] : i \in DOMAIN ev.l} : ~Bad(v)}
       /\ ev.k = "filter" =>
             /\ ev.out = SelectSeq(ev.l, New)
             /\ \A i \in DOMAIN ev.out : ~Bad(ev.out[i])
             /\ known_message_ids = ev.before

\* the known ids were primed from a listing of an empty and a non-string
\* id and are empty; a listing of a non-string id and "a" was then filtered
\* and only "a" got through
InvalidSkippedValidKept ==
    /\ ev.k = "filter" /\ ev.pk = "prime" /\ ev.pl = <<"", NonStr>>
    /\ known_message_ids = {}
    /\ ev.l = <<NonStr, "a">> /\ ev.out = <<"a">>

\* C29: marking an id that was marked by the operation just before leaves
\* the known ids as that first marking left them, whatever they were and
\* whatever the id.
MarkIdempotent ==
    (ev.k = "mark" /\ ev.pk = "mark" /\ ev.pid = ev.id) =>
        /\ known_message_ids = ev.before
        /\ ev.id \in known_message_ids

\* "b" was marked twice in a row while "a" was known
MarkedTwice ==
    /\ ev.k = "mark" /\ ev.pk = "mark" /\ ev.pid = "b" /\ ev.id = "b"
    /\ ev.before = {"a", "b"} /\ known_message_ids = {"a", "b"}

\* C30: whenever the browser shows a page for a list of n >= 1 modules, the
\* page count is the least k >= 1 with 6k >= n; the page shown is the page
\* asked for when that lies in 0 .. page count - 1, the first page when it
\* is negative and the last page when it is past the end; and the modules
\* listed are those at positions 6p + 1 .. min(6p + 6, n) of the sorted
\* list, at least one and at most 6.
PageClamped ==
    (ev.k = "page" /\ ev.n >= 1) =>
        LET n  == ev.n
            pc == CHOOSE k \in 1..n : 6 * k >= n /\ (k = 1 \/ 6 * (k - 1) < n)
            p  == ev.page
        IN /\ ev.pages = pc
           /\ p \in 0..(pc - 1)
           /\ ev.req < 0 => p = 0
           /\ ev.req >= pc => p = pc - 1
           /\ ev.req \in 0..(pc - 1) => p = ev.req
           /\ Len(ev.mods) \in 1..6
           /\ Len(ev.mods) = (IF 6 * p + 6 <= n THEN 6 ELSE n - 6 * p)
           /\ \A i \in DOMAIN ev.mods : ev.mods[i] = 6 * p + i

\* the next arrow of a form showing the third page was pressed when only
\* seven modules were left: page 3 was asked for, the second and last page
\* is shown, with the seventh module on it
PastTheEndClamped ==
    /\ ev.k = "page" /\ ev.n = 7 /\ ev.req = 3
    /\ ev.page = 1 /\ ev.pages = 2 /\ ev.mods = <<7>>
====
